---- MODULE Spec2Model ----
(***************************************************************************)
(* Model of the versioning-branch GitHub action.                           *)
(*                                                                         *)
(* The repository holds two entry points, each a `main()` of its own:      *)
(*   - src/unnamed/part_000 : resolves the next version of the base        *)
(*     branch and creates the versioning branch (program "branch");        *)
(*   - src/src/index.ts     : validates the same inputs and reconciles the *)
(*     pull request, its info comment and its collaborators                *)
(*     (program "pr").                                                     *)
(* A run is one execution of one main(); the remote repository (refs,      *)
(* pull requests, comments) is shared by the runs.  Every `await` of the   *)
(* code is one step of a run: the remote call takes effect and its         *)
(* response is handled up to the next `await`.                             *)
(*                                                                         *)
(* Strings the code parses (versions) are sequences of one-character       *)
(* strings; strings the code only builds or compares are TLA+ strings.     *)
(***************************************************************************)
EXTENDS Integers, Sequences, FiniteSets, TLC

(***************************************************************************)
(* Bounds of the model.                                                    *)
(***************************************************************************)
\* number of runs of program "branch" against the same repository
NumRuns == 2
\* number of runs of program "pr" against the same repository
NumPrRuns == 1
\* number of pushes another actor makes to the base branch
MaxPushes == 1
\* longest requested assignee list
MaxAssignees == 2

(***************************************************************************)
(* Characters and strings.                                                 *)
(***************************************************************************)
Digits == {"0", "1", "2", "3", "4", "5", "6", "7", "8", "9"}

Letters == {"a", "b", "c", "e", "r", "t", "v", "x"}

DigitVal(c) ==
    CASE c = "0" -> 0 [] c = "1" -> 1 [] c = "2" -> 2 [] c = "3" -> 3
      [] c = "4" -> 4 [] c = "5" -> 5 [] c = "6" -> 6 [] c = "7" -> 7
      [] c = "8" -> 8 [] c = "9" -> 9

\* the JavaScript value `undefined`; printed by a template literal as "undefined"
Undefined == <<"undefined">>

\* the TLA+ string spelled by a sequence of characters
RECURSIVE Str(_)
Str(s) == IF s = <<>> THEN "" ELSE Head(s) \o Str(Tail(s))

\* Array.prototype.join
RECURSIVE Join(_, _)
Join(list, sep) ==
    IF list = <<>> THEN ""
    ELSE IF Len(list) = 1 THEN list[1]
    ELSE list[1] \o sep \o Join(Tail(list), sep)

\* position of the first c in s, 0 when there is none
IndexOf(s, c) ==
    IF \E i \in 1..Len(s) : s[i] = c
    THEN CHOOSE i \in 1..Len(s) : s[i] = c /\ \A j \in 1..(i - 1) : s[j] # c
    ELSE 0

\* String.prototype.split on one character
RECURSIVE Split(_, _)
Split(s, c) ==
    LET i == IndexOf(s, c)
    IN  IF i = 0 THEN <<s>>
        ELSE <<SubSeq(s, 1, i - 1)>> \o Split(SubSeq(s, i + 1, Len(s)), c)

(***************************************************************************)
(* The semver library, as far as main() uses it: valid(), inc() in strict  *)
(* mode, and the formatting of the incremented version.                    *)
(***************************************************************************)
NullVersion == [major |-> -1, minor |-> -1, patch |-> -1, prerelease |-> <<>>]

\* a numeric pre-release identifier
NumId(n) == [isNum |-> TRUE, n |-> n, s |-> ""]

\* an alphanumeric pre-release identifier
StrId(s) == [isNum |-> FALSE, n |-> 0, s |-> s]

IsDigits(id) == Len(id) > 0 /\ \A i \in 1..Len(id) : id[i] \in Digits

\* NUMERICIDENTIFIER: 0|[1-9]\d*
NumericIdentifier(id) == IsDigits(id) /\ (Len(id) = 1 \/ id[1] # "0")

\* NONNUMERICIDENTIFIER: \d*[a-zA-Z-][a-zA-Z0-9-]*
NonNumericIdentifier(id) ==
    /\ \A i \in 1..Len(id) : id[i] \in Digits \cup Letters \cup {"-"}
    /\ \E i \in 1..Len(id) : id[i] \notin Digits

\* BUILDIDENTIFIER: [0-9A-Za-z-]+
BuildIdentifier(id) ==
    Len(id) > 0 /\ \A i \in 1..Len(id) : id[i] \in Digits \cup Letters \cup {"-"}

RECURSIVE ToNum(_)
ToNum(id) ==
    IF id = <<>> THEN 0 ELSE 10 * ToNum(SubSeq(id, 1, Len(id) - 1)) + DigitVal(id[Len(id)])

\* a parsed pre-release identifier: a number when it is all digits
PreId(id) == IF IsDigits(id) THEN NumId(ToNum(id)) ELSE StrId(Str(id))

\* new SemVer(version) in strict mode; NullVersion when the constructor throws
parse(version) ==
    IF version = Undefined THEN NullVersion
    ELSE
    LET s0    == IF Len(version) > 0 /\ version[1] = "v" THEN Tail(version) ELSE version
        plus  == IndexOf(s0, "+")
        s1    == IF plus = 0 THEN s0 ELSE SubSeq(s0, 1, plus - 1)
        build == IF plus = 0 THEN <<>> ELSE Split(SubSeq(s0, plus + 1, Len(s0)), ".")
        dash  == IndexOf(s1, "-")
        main  == Split(IF dash = 0 THEN s1 ELSE SubSeq(s1, 1, dash - 1), ".")
        pre   == IF dash = 0 THEN <<>> ELSE Split(SubSeq(s1, dash + 1, Len(s1)), ".")
    IN  IF /\ Len(main) = 3
           /\ \A i \in 1..3 : NumericIdentifier(main[i])
           /\ \A i \in 1..Len(pre) : NumericIdentifier(pre[i]) \/ NonNumericIdentifier(pre[i])
           /\ \A i \in 1..Len(build) : BuildIdentifier(build[i])
        THEN [major |-> ToNum(main[1]), minor |-> ToNum(main[2]), patch |-> ToNum(main[3]),
              prerelease |-> [i \in 1..Len(pre) |-> PreId(pre[i])]]
        ELSE NullVersion

\* semver.valid(version): truthy exactly when the version parses
valid(version) == parse(version) # NullVersion

\* SemVer.format(): major.minor.patch[-prerelease]
format(v) ==
    ToString(v.major) \o "." \o ToString(v.minor) \o "." \o ToString(v.patch) \o
    (IF v.prerelease = <<>> THEN ""
     ELSE "-" \o Join([i \in 1..Len(v.prerelease) |->
                         IF v.prerelease[i].isNum THEN ToString(v.prerelease[i].n)
                         ELSE v.prerelease[i].s], "."))

\* the characters of a string
Chars(s) == [i \in 1..Len(s) |-> SubSeq(s, i, i)]

\* a decimal literal of Number(): digits with an optional exponent part
JsDecimal(id) ==
    \E k \in 1..Len(id) :
        /\ IsDigits(SubSeq(id, 1, k))
        /\ \/ k = Len(id)
           \/ /\ id[k + 1] \in {"e", "E"}
              /\ LET ex == SubSeq(id, k + 2, Len(id))
                 IN  IsDigits(IF ex # <<>> /\ ex[1] = "-" THEN Tail(ex) ELSE ex)

\* a binary, octal or hexadecimal literal of Number()
JsPrefixed(id, letters, digits) ==
    /\ Len(id) > 2
    /\ id[1] = "0"
    /\ id[2] \in letters
    /\ \A i \in 3..Len(id) : id[i] \in digits

\* Number(id) is a number, for an identifier of [0-9A-Za-z-]: a decimal
\* literal with an optional minus sign, a prefixed literal, or Infinity
JsNumber(id) ==
    \/ JsDecimal(IF id # <<>> /\ id[1] = "-" THEN Tail(id) ELSE id)
    \/ JsPrefixed(id, {"x", "X"}, Digits \cup {"a", "b", "c", "d", "e", "f",
                                             "A", "B", "C", "D", "E", "F"})
    \/ JsPrefixed(id, {"b", "B"}, {"0", "1"})
    \/ JsPrefixed(id, {"o", "O"}, {"0", "1", "2", "3", "4", "5", "6", "7"})
    \/ Str(id) \in {"Infinity", "-Infinity"}

\* isNaN(prerelease[i]): a number is one, a string is converted by Number()
IsNaN(p) == ~p.isNum /\ ~JsNumber(Chars(p.s))

\* compareIdentifiers(prerelease[i], identifier) === 0: two runs of digits are
\* compared as numbers, anything else as it is written
sameIdentifier(p, identifier) ==
    IF p.isNum THEN IsDigits(Chars(identifier)) /\ ToNum(Chars(identifier)) = p.n
    ELSE p.s = identifier

\* SemVer.inc('pre', identifier); identifier "" stands for null
incPre(v, identifier) ==
    LET p    == v.prerelease
        nums == {i \in 1..Len(p) : p[i].isNum}
        last == CHOOSE i \in nums : \A j \in nums : j <= i
        p1   == IF p = <<>> THEN <<NumId(0)>>
                ELSE IF nums = {} THEN Append(p, NumId(0))
                ELSE [p EXCEPT ![last] = NumId(p[last].n + 1)]
        p2   == IF identifier = "" THEN p1
                ELSE IF sameIdentifier(p1[1], identifier)
                     THEN IF Len(p1) < 2 \/ IsNaN(p1[2])
                          THEN <<StrId(identifier), NumId(0)>>
                          ELSE p1
                     ELSE <<StrId(identifier), NumId(0)>>
    IN  [v EXCEPT !.prerelease = p2]

\* SemVer.inc(release, identifier) for the release types other than 'pre'
incRelease(v, release, identifier) ==
    CASE release = "premajor" ->
           incPre([major |-> v.major + 1, minor |-> 0, patch |-> 0, prerelease |-> <<>>],
                  identifier)
      [] release = "preminor" ->
           incPre([major |-> v.major, minor |-> v.minor + 1, patch |-> 0,
                   prerelease |-> <<>>], identifier)
      [] release = "prepatch" ->
           incPre([major |-> v.major, minor |-> v.minor, patch |-> v.patch + 1,
                   prerelease |-> <<>>], identifier)
      [] release = "prerelease" ->
           incPre(IF v.prerelease = <<>> THEN [v EXCEPT !.patch = v.patch + 1] ELSE v,
                  identifier)
      [] release = "major" ->
           [major |-> IF v.minor # 0 \/ v.patch # 0 \/ v.prerelease = <<>>
                      THEN v.major + 1 ELSE v.major,
            minor |-> 0, patch |-> 0, prerelease |-> <<>>]
      [] release = "minor" ->
           [major |-> v.major,
            minor |-> IF v.patch # 0 \/ v.prerelease = <<>> THEN v.minor + 1 ELSE v.minor,
            patch |-> 0, prerelease |-> <<>>]
      [] release = "patch" ->
           [major |-> v.major, minor |-> v.minor,
            patch |-> IF v.prerelease = <<>> THEN v.patch + 1 ELSE v.patch,
            prerelease |-> <<>>]
      [] OTHER -> NullVersion

\* semver.inc(version, release, false, identifier): the new version string,
\* "null" when the version does not parse or the release type is unknown
inc(version, release, identifier) ==
    LET v == parse(version)
        w == IF v = NullVersion THEN NullVersion ELSE incRelease(v, release, identifier)
    IN  IF w = NullVersion THEN "null" ELSE format(w)

(***************************************************************************)
(* State.                                                                  *)
(***************************************************************************)
VARIABLES
    inputs,       \* the workflow's `with:` map read by core.getInput
    prInputs,     \* identifiers index.ts uses and declares outside the file
    declared,     \* whether the identifiers a program uses are all declared
    packageJson,  \* the `version` of package.json on the base branch
    tokenUser,    \* the account the github-token acts as
    refs,         \* remote refs: ref name -> commit
    pushes,       \* pushes made to the base branch by another actor
    pulls,        \* remote pull requests, pulls[n] has number n
    comments,     \* comments[n]: the issue comments of pull request n
    now,          \* the remote's clock, stamps updated_at
    run           \* run[r]: position, locals, outputs and calls of run r

vars == <<inputs, prInputs, declared, packageJson, tokenUser, refs, pushes, pulls, comments, now, run>>

Runs == 1..NumRuns

PrRuns == 1..NumPrRuns

\* the repository's default branch and a branch the action never names
BaseRef == "refs/heads/main"

OtherRef == "refs/heads/dev"

\* char sequences used as versions
V123 == <<"1", ".", "2", ".", "3">>

VPrefixed == <<"v", "1", ".", "2", ".", "3">>

VBeta == <<"1", ".", "2", ".", "3", "-", "b", "e", "t", "a", ".", "0">>

VBetaHex == <<"1", ".", "0", ".", "0", "-", "b", "e", "t", "a", ".", "0", "x", "1">>

VShort == <<"1", ".", "2">>

VLeadingZero == <<"0", "1", ".", "2", ".", "3">>

V500 == <<"5", ".", "0", ".", "0">>

\* no input supplied: core.getInput returns the empty string
Empty == <<>>

\* the identity of the GitHub Actions bot (index.ts lines 124-125, 132)
BotLogin == "github-actions[bot]"

BotId == 41898282

\* StatusCodes.NO_CONTENT
NO_CONTENT == 204

NoPull == [number |-> 0, head |-> "", base |-> "", state |-> "none", title |-> "",
           body |-> "", draft |-> FALSE, updated_at |-> 0, url |-> ""]

NoComment == [id |-> 0, login |-> "", uid |-> 0, body |-> ""]

\* core.getInput(name)
getInput(name) == inputs[name]

\* the state of a run before main() is entered
InitRun ==
    [pc |-> "start", after |-> {}, failed |-> <<>>, outputs |-> <<>>, calls |-> <<>>,
     baseBranch |-> "", versionType |-> "", branchPrefix |-> "", prerelease |-> FALSE,
     preId |-> "", baseVersion |-> Undefined, releaseType |-> "undefined",
     newVersion |-> "", headBranch |-> "", headBranchRef |-> "", sha |-> 0,
     pullRequest |-> NoPull, infoComment |-> NoComment, infoCommentBody |-> "",
     assignees |-> <<>>, pending |-> {}, settled |-> <<>>]

\* the runs that have ended: main() has returned
Ended == {q \in Runs : run[q].pc \in {"done", "failed"}}

\* a failure that is recorded while the run goes on where it was
setFailedAndGoOn(st, message) == [st EXCEPT !.failed = Append(@, message)]

\* core.setFailed(error.message) in the catch block: the run is over
setFailed(st, message) == [st EXCEPT !.pc = "failed", !.failed = Append(@, message)]

\* core.setOutput(name, value)
setOutput(st, name, value) == [st EXCEPT !.outputs = (name :> value) @@ @]

\* a remote call the run has issued, as the remote saw it
logCall(st, call) == [st EXCEPT !.calls = Append(@, call)]

\* the message of a failed request (network, authorisation, rate limit)
HttpError == "HttpError"

(***************************************************************************)
(* Program "branch": main() of src/unnamed/part_000.                        *)
(***************************************************************************)
\* lines 35-52: read the inputs, validate them, request package.json
readBranchInputs(st) ==
    LET baseBranch == getInput("base-branch")
        versionType == getInput("version-type")
        st1 == [st EXCEPT !.baseBranch = baseBranch,
                          !.versionType = versionType,
                          !.branchPrefix = getInput("version-branch-prefix"),
                          !.prerelease = (getInput("prerelease") = "true"),
                          !.preId = getInput("pre-id")]
    IN  IF baseBranch = "" THEN setFailed(st1, "Must provide base branch.")
        ELSE IF versionType \notin {"major", "minor", "patch", "prerelease"}
             THEN setFailed(st1, "Invalid version-type: " \o versionType)
             ELSE [st1 EXCEPT !.pc = "fetch"]

\* lines 59-74: the switch on versionType ('patch' has no case of its own:
\* the third label repeats 'major' and is never taken)
branchReleaseType(versionType, prerelease) ==
    CASE versionType = "major" -> IF prerelease THEN "premajor" ELSE "major"
      [] versionType = "minor" -> IF prerelease THEN "preminor" ELSE "minor"
      [] OTHER -> "prerelease"

\* lines 53-87: package.json has arrived; resolve the version, name the
\* branch, request the head commit of the base branch
resolveBranchVersion(st, version) ==
    LET releaseType == branchReleaseType(st.versionType, st.prerelease)
        newVersion == inc(version, releaseType, st.preId)
        headBranch == st.branchPrefix \o newVersion
    IN  IF ~valid(version)
        THEN setFailed([st EXCEPT !.baseVersion = version],
                       "Base version " \o Str(version) \o " is invalid.")
        ELSE [st EXCEPT !.baseVersion = version, !.releaseType = releaseType,
                        !.newVersion = newVersion, !.headBranch = headBranch,
                        !.headBranchRef = "refs/heads/" \o headBranch,
                        !.pc = "getCommit"]

\* lines 98-104: the outputs of a run that created its branch
branchOutputs(st) ==
    setOutput(setOutput(setOutput(setOutput(st,
        "base-branch", st.baseBranch),
        "base-version", Str(st.baseVersion)),
        "head-branch", st.headBranch),
        "head-version", st.newVersion)

\* a remote that lets git.createRef replace a ref
createRefForced(ref) == TRUE

\* the remote's answer to git.createRef: a ref that exists is not replaced
createRefAccepted(ref) == ref \notin DOMAIN refs

\* main() is entered; the runs of program "branch" may overlap
BStart(r) ==
    /\ run[r].pc = "start"
    /\ run' = [run EXCEPT ![r] = readBranchInputs([@ EXCEPT !.after = Ended])]
    /\ UNCHANGED <<inputs, prInputs, declared, packageJson, tokenUser, refs, pushes, pulls, comments, now>>

\* fetchPackageJson resolves or rejects (line 52)
BFetchDone(r) ==
    /\ run[r].pc = "fetch"
    /\ \E ok \in BOOLEAN :
         run' = [run EXCEPT ![r] = IF ok THEN resolveBranchVersion(@, packageJson)
                                   ELSE setFailed(@, HttpError)]
    /\ UNCHANGED <<inputs, prInputs, declared, packageJson, tokenUser, refs, pushes, pulls, comments, now>>

\* repos.getCommit resolves or rejects (lines 83-87)
BGetCommitDone(r) ==
    /\ run[r].pc = "getCommit"
    /\ LET ref == "refs/heads/" \o run[r].baseBranch
       IN  \E ok \in BOOLEAN :
             run' = [run EXCEPT ![r] =
                       IF ok /\ ref \in DOMAIN refs
                       THEN [logCall(@, [op |-> "repos.getCommit", ref |-> ref,
                                         sha |-> refs[ref]])
                             EXCEPT !.sha = refs[ref], !.pc = "createRef"]
                       ELSE setFailed(logCall(@, [op |-> "repos.getCommit", ref |-> ref,
                                                  sha |-> 0]), HttpError)]
    /\ UNCHANGED <<inputs, prInputs, declared, packageJson, tokenUser, refs, pushes, pulls, comments, now>>

\* git.createRef resolves or rejects (lines 90-104)
BCreateRefDone(r) ==
    /\ run[r].pc = "createRef"
    /\ LET ref == run[r].headBranchRef
           st == logCall(run[r], [op |-> "git.createRef", ref |-> ref, sha |-> run[r].sha])
       IN  \E ok \in BOOLEAN :
             IF ok /\ createRefAccepted(ref)
             THEN /\ refs' = (ref :> run[r].sha) @@ refs
                  /\ run' = [run EXCEPT ![r] = [branchOutputs(st) EXCEPT !.pc = "done"]]
             ELSE /\ refs' = refs
                  /\ run' = [run EXCEPT ![r] = setFailed(st, IF ok THEN "Reference already exists"
                                                            ELSE HttpError)]
    /\ UNCHANGED <<inputs, prInputs, declared, packageJson, tokenUser, pushes, pulls, comments, now>>

\* another actor pushes a commit to the base branch
PushBase ==
    /\ pushes < MaxPushes
    /\ pushes' = pushes + 1
    /\ refs' = [refs EXCEPT ![BaseRef] = @ + 1]
    /\ UNCHANGED <<inputs, prInputs, declared, packageJson, tokenUser, pulls, comments, now, run>>

\* the inputs the runs of program "branch" are given
InitRemote ==
    /\ refs = (BaseRef :> 1) @@ (OtherRef :> 1)
    /\ pushes = 0
    /\ run = [r \in Runs |-> InitRun]

InitBranch ==
    /\ \E bb \in {"", "main"}, vt \in {"major", "minor", "patch", "prerelease", "bogus"},
          pre \in {"true", "false"}, id \in {"", "beta"}, cv \in {Empty, V500, VShort} :
         /\ cv # Empty => pre = "false" /\ id = ""
         /\ inputs = [n \in {"base-branch", "version-type", "version-branch-prefix",
                          "prerelease", "pre-id", "custom-version"} |->
                     CASE n = "base-branch" -> bb
                       [] n = "version-type" -> vt
                       [] n = "version-branch-prefix" -> "rel_"
                       [] n = "prerelease" -> pre
                       [] n = "pre-id" -> id
                       [] n = "custom-version" -> cv]
    /\ packageJson \in {V123, VPrefixed, VBeta, VBetaHex, VShort, VLeadingZero,
                      Undefined}
    /\ prInputs = <<>>
    /\ declared = TRUE
    /\ tokenUser = [login |-> BotLogin, id |-> BotId]
    /\ pulls = <<>>
    /\ comments = <<>>
    /\ now = 0
    /\ InitRemote

NextBranch ==
    \/ \E r \in Runs : BStart(r)
    \/ \E r \in Runs : BFetchDone(r)
    \/ \E r \in Runs : BGetCommitDone(r)
    \/ \E r \in Runs : BCreateRefDone(r)
    \/ PushBase

SpecBranch == InitBranch /\ [][NextBranch]_vars

(***************************************************************************)
(* The remote's pull requests and comments, as index.ts uses them.          *)
(***************************************************************************)
\* the pull requests of seq with the largest updated_at first
RECURSIVE SortByUpdatedDesc(_)
SortByUpdatedDesc(set) ==
    IF set = {} THEN <<>>
    ELSE LET top == CHOOSE p \in set : \A q \in set : q.updated_at <= p.updated_at
         IN  <<top>> \o SortByUpdatedDesc(set \ {top})

\* a listing asked for with state: 'all': open and closed pull requests alike
pullsListAll(head, base) ==
    SortByUpdatedDesc({pulls[n] : n \in {m \in 1..Len(pulls) :
                                          pulls[m].head = head /\ pulls[m].base = base}})

\* pulls.list({head, base, sort: 'updated', direction: 'desc'}), lines 72-79:
\* the request passes no `state`, and the platform then lists the open pull
\* requests only; the closed ones the comment of line 81 expects are not in
\* the answer
pullsList(head, base) ==
    SortByUpdatedDesc({pulls[n] : n \in {m \in 1..Len(pulls) :
                                          /\ pulls[m].head = head
                                          /\ pulls[m].base = base
                                          /\ pulls[m].state = "open"}})

\* pulls.update({pull_number, title, body, state: 'open'}): absent fields stay
pullsUpdate(number, title, body) ==
    [pulls EXCEPT ![number] = [@ EXCEPT !.title = IF title = "" THEN @ ELSE title,
                                        !.body = IF body = "" THEN @ ELSE body,
                                        !.state = "open",
                                        !.updated_at = now + 1]]

\* pulls.create({head, base, title, body, draft})
pullsCreate(head, base, title, body, draft) ==
    Append(pulls, [number |-> Len(pulls) + 1, head |-> head, base |-> base,
                   state |-> "open", title |-> title, body |-> body, draft |-> draft,
                   updated_at |-> now + 1,
                   url |-> "pulls/" \o ToString(Len(pulls) + 1)])

\* a filter that wants login and id to match together
botCommentsBoth(list) ==
    SelectSeq(list, LAMBDA comment : comment.login = BotLogin /\ comment.uid = BotId)

\* lines 131-133: the comments of the automation identity, in list order
botComments(list) ==
    SelectSeq(list, LAMBDA comment : comment.login = BotLogin \/ comment.uid = BotId)

\* issues.updateComment({comment_id, body})
commentsUpdate(number, id, body) ==
    [comments EXCEPT ![number] =
        [i \in 1..Len(@) |-> IF @[i].id = id THEN [@[i] EXCEPT !.body = body] ELSE @[i]]]

\* issues.createComment({issue_number, body}): the author is the token's account
commentsCreate(number, body) ==
    [comments EXCEPT ![number] =
        Append(@, [id |-> 100 * number + Len(@) + 1, login |-> tokenUser.login,
                   uid |-> tokenUser.id, body |-> body])]

(***************************************************************************)
(* Program "pr": main() of src/src/index.ts.                                *)
(***************************************************************************)
\* the message of the ReferenceError thrown where an identifier that no
\* declaration binds is evaluated
NotDefined(identifier) == identifier \o " is not defined"

\* lines 23-37: read the inputs, validate them, request package.json; the
\* request is made through `axios` (line 17), which index.ts does not declare:
\* where nothing else declares it the call throws and no request leaves
readPrInputs(st) ==
    LET baseBranch == getInput("base-branch")
        versionType == getInput("version-type")
        st1 == [st EXCEPT !.baseBranch = baseBranch,
                          !.versionType = versionType,
                          !.prerelease = (getInput("prerelease") = "true"),
                          !.preId = getInput("pre-id")]
    IN  IF baseBranch = "" THEN setFailed(st1, "Must provide base branch.")
        ELSE IF versionType \notin {"major", "minor", "patch"}
             THEN setFailed(st1, "Invalid version-type: " \o versionType)
             ELSE IF ~declared THEN setFailed(st1, NotDefined("axios"))
                  ELSE [st1 EXCEPT !.pc = "fetch"]

\* lines 44-59: the switch on versionType; its default assigns nothing
prReleaseType(versionType, prerelease) ==
    CASE versionType = "major" -> IF prerelease THEN "premajor" ELSE "major"
      [] versionType = "minor" -> IF prerelease THEN "preminor" ELSE "minor"
      [] OTHER -> "undefined"

\* lines 38-79: package.json has arrived; semver.inc is called without a
\* release type, the outputs are written, the pull requests are requested
resolvePrVersion(st, version) ==
    LET st1 == [st EXCEPT !.baseVersion = version,
                          !.releaseType = prReleaseType(st.versionType, st.prerelease),
                          !.newVersion = inc(version, "undefined", ""),
                          !.headBranch = prInputs.headBranch,
                          !.pc = "list"]
    IN  IF ~valid(version)
        THEN setFailed([st EXCEPT !.baseVersion = version],
                       "Base version " \o Str(version) \o " is invalid.")
        ELSE setOutput(setOutput(setOutput(setOutput(setOutput(setOutput(st1,
                 "base-branch", st1.baseBranch),
                 "base-version", Str(version)),
                 "head-branch", st1.baseBranch),
                 "head-version", Str(version)),
                 "is-prerelease", prInputs.isPrerelease),
                 "is-draft-pr", prInputs.prCreateDraft)

\* line 82: the first pull request of the answer, NoPull (falsy) when empty
firstPull(data) == IF Len(data) = 0 THEN NoPull ELSE data[1]

\* a duplicate policy that tests for the wrong state
duplicateClosed(pullRequest) ==
    prInputs.prFailIfExist = "true" /\ pullRequest # NoPull /\ pullRequest.state = "closed"

\* line 87: the duplicate policy
duplicateOpen(pullRequest) ==
    prInputs.prFailIfExist = "true" /\ pullRequest # NoPull /\ pullRequest.state = "open"

\* lines 81-116: the answer of pulls.list decides between failing, updating
\* and creating
choosePull(st, data) ==
    LET pullRequest == firstPull(data)
        st1 == [st EXCEPT !.pullRequest = pullRequest]
    IN  IF duplicateOpen(pullRequest)
        THEN setFailed(st1, "Not allowed to re-issue a pull request to base branch: "
                            \o st.baseBranch \o " from head branch: " \o st.headBranch
                            \o ". An open pull request is found.")
        ELSE IF pullRequest # NoPull THEN [st1 EXCEPT !.pc = "update"]
        ELSE [st1 EXCEPT !.pc = "create"]

\* lines 102-121, 115-121: the pull request of the response is reported and
\* the comment template requested
reportPull(st, pullRequest) ==
    [setOutput(setOutput([st EXCEPT !.pullRequest = pullRequest],
         "pull-request-number", pullRequest.number),
         "pull-request-url", pullRequest.url)
     EXCEPT !.pc = "template"]

\* a choice that finds no comment whatever the list holds
chooseCommentNew(st, data) == [st EXCEPT !.infoComment = NoComment, !.pc = "createComment"]

\* lines 131-152: the first comment of the automation identity is updated,
\* a comment is created when there is none
chooseComment(st, data) ==
    LET found == botComments(data)
    IN  IF Len(found) > 0
        THEN [st EXCEPT !.infoComment = found[1], !.pc = "updateComment"]
        ELSE [st EXCEPT !.infoComment = NoComment, !.pc = "createComment"]

\* lines 209-214: the labels are reported and the run ends
afterLabels(st) ==
    [setOutput(st, "labels", Join(prInputs.prLabels, ",")) EXCEPT !.pc = "done"]

\* lines 196-208: the reviewers are reported, the labels added when given
afterReviewers(st) ==
    LET st1 == setOutput(setOutput(st,
                   "reviewers", Join(prInputs.prReviewers, ",")),
                   "team-reviewers", Join(prInputs.prTeamReviewers, ","))
    IN  IF Len(prInputs.prLabels) > 0 THEN [st1 EXCEPT !.pc = "addLabels"]
        ELSE afterLabels(st1)

\* lines 183-195: the assignees are reported, the reviewers requested when given
afterAssignees(st) ==
    LET st1 == setOutput(st, "assignees", Join(st.assignees, ","))
    IN  IF Len(prInputs.prReviewers) > 0 \/ Len(prInputs.prTeamReviewers) > 0
        THEN [st1 EXCEPT !.pc = "requestReviewers"]
        ELSE afterReviewers(st1)

\* line 179: the list handed to issues.addAssignees
assigneesToAdd(st) == prInputs.prAssignees

\* the join that always goes on to issues.addAssignees
afterChecksAlways(st) == [st EXCEPT !.pc = "addAssignees"]

\* lines 174-182: every check has settled
afterChecks(st) ==
    IF Len(st.assignees) > 0 THEN [st EXCEPT !.pc = "addAssignees"]
    ELSE afterAssignees(st)

\* lines 153-173: after the comment, one assignability check per requested
\* assignee is started; the requests leave in list order
startChecks(st) ==
    LET st1 == [st EXCEPT !.assignees = <<>>]
    IN  IF Len(prInputs.prAssignees) > 0
        THEN [st1 EXCEPT !.calls = @ \o [i \in 1..Len(prInputs.prAssignees) |->
                                           [op |-> "issues.checkUserCanBeAssigned",
                                            assignee |-> prInputs.prAssignees[i]]],
                         !.pending = 1..Len(prInputs.prAssignees),
                         !.settled = [i \in 1..Len(prInputs.prAssignees) |-> 0],
                         !.pc = "checks"]
        ELSE afterAssignees(st1)

\* a check that pushes its assignee whatever the status
checkResolvedAny(st, assignee, status) == [st EXCEPT !.assignees = Append(@, assignee)]

\* lines 167-170: a check that resolved pushes its assignee on 204 only
checkResolved(st, assignee, status) ==
    IF status = NO_CONTENT THEN [st EXCEPT !.assignees = Append(@, assignee)] ELSE st

\* the answers of issues.checkUserCanBeAssigned: 204 assignable, 404 not
\* assignable (the client rejects), any other success status
CheckStatuses == {NO_CONTENT, 200, 404}

remoteUnchanged == UNCHANGED <<inputs, prInputs, declared, packageJson, tokenUser, refs, pushes>>

\* main() is entered; the runs of program "pr" may overlap
PStart(r) ==
    /\ run[r].pc = "start"
    /\ run' = [run EXCEPT ![r] = readPrInputs([@ EXCEPT !.after = Ended])]
    /\ UNCHANGED <<pulls, comments, now>>
    /\ remoteUnchanged

\* fetchPackageJson resolves or rejects (line 37)
PFetchDone(r) ==
    /\ run[r].pc = "fetch"
    /\ \E ok \in BOOLEAN :
         run' = [run EXCEPT ![r] = IF ok THEN resolvePrVersion(@, packageJson)
                                   ELSE setFailed(@, HttpError)]
    /\ UNCHANGED <<pulls, comments, now>>
    /\ remoteUnchanged

\* pulls.list resolves or rejects (lines 72-91)
PListDone(r) ==
    /\ run[r].pc = "list"
    /\ LET st == logCall(run[r], [op |-> "pulls.list", head |-> run[r].headBranch,
                                  base |-> run[r].baseBranch])
       IN  \E ok \in BOOLEAN :
             run' = [run EXCEPT ![r] =
                       IF ok THEN choosePull(st, pullsList(st.headBranch, st.baseBranch))
                       ELSE setFailed(st, HttpError)]
    /\ UNCHANGED <<pulls, comments, now>>
    /\ remoteUnchanged

\* pulls.update resolves or rejects (lines 94-102, 117-121)
PUpdateDone(r) ==
    /\ run[r].pc = "update"
    /\ LET number == run[r].pullRequest.number
           st == logCall(run[r], [op |-> "pulls.update", pull_number |-> number,
                                  title |-> prInputs.prTitle,
                                  body |-> prInputs.prDescription, state |-> "open"])
       IN  \E ok \in BOOLEAN :
             IF ok
             THEN /\ pulls' = pullsUpdate(number, prInputs.prTitle, prInputs.prDescription)
                  /\ now' = now + 1
                  /\ run' = [run EXCEPT ![r] = reportPull(st, pulls'[number])]
             ELSE /\ UNCHANGED <<pulls, now>>
                  /\ run' = [run EXCEPT ![r] = setFailed(st, HttpError)]
    /\ UNCHANGED comments
    /\ remoteUnchanged

\* pulls.create resolves or rejects (lines 106-121)
PCreateDone(r) ==
    /\ run[r].pc = "create"
    /\ LET draft == (prInputs.prCreateDraft = "true")
           st == logCall(run[r], [op |-> "pulls.create", head |-> run[r].headBranch,
                                  base |-> run[r].baseBranch, title |-> prInputs.prTitle,
                                  body |-> prInputs.prDescription, draft |-> draft])
       IN  \E ok \in BOOLEAN :
             IF ok
             THEN /\ pulls' = pullsCreate(st.headBranch, st.baseBranch, prInputs.prTitle,
                                          prInputs.prDescription, draft)
                  /\ comments' = Append(comments, <<>>)
                  /\ now' = now + 1
                  /\ run' = [run EXCEPT ![r] = reportPull(st, pulls'[Len(pulls')])]
             ELSE /\ UNCHANGED <<pulls, comments, now>>
                  /\ run' = [run EXCEPT ![r] = setFailed(st, HttpError)]
    /\ remoteUnchanged

\* loadTemplate resolves or rejects; replace() renders the body (lines 121-130)
PTemplateDone(r) ==
    /\ run[r].pc = "template"
    /\ \E ok \in BOOLEAN :
         run' = [run EXCEPT ![r] =
                   IF ok THEN [@ EXCEPT !.infoCommentBody = "info " \o run[r].headBranch,
                                        !.pc = "listComments"]
                   ELSE setFailed(@, HttpError)]
    /\ UNCHANGED <<pulls, comments, now>>
    /\ remoteUnchanged

\* issues.listComments resolves or rejects (lines 126-136)
PListCommentsDone(r) ==
    /\ run[r].pc = "listComments"
    /\ LET number == run[r].pullRequest.number
           st == logCall(run[r], [op |-> "issues.listComments", issue_number |-> number])
       IN  \E ok \in BOOLEAN :
             run' = [run EXCEPT ![r] = IF ok THEN chooseComment(st, comments[number])
                                       ELSE setFailed(st, HttpError)]
    /\ UNCHANGED <<pulls, comments, now>>
    /\ remoteUnchanged

\* issues.updateComment resolves or rejects (lines 137-155)
PUpdateCommentDone(r) ==
    /\ run[r].pc = "updateComment"
    /\ LET number == run[r].pullRequest.number
           st == logCall(run[r], [op |-> "issues.updateComment",
                                  comment_id |-> run[r].infoComment.id,
                                  body |-> run[r].infoCommentBody])
       IN  \E ok \in BOOLEAN :
             IF ok
             THEN /\ comments' = commentsUpdate(number, st.infoComment.id, st.infoCommentBody)
                  /\ run' = [run EXCEPT ![r] = startChecks(st)]
             ELSE /\ UNCHANGED comments
                  /\ run' = [run EXCEPT ![r] = setFailed(st, HttpError)]
    /\ UNCHANGED <<pulls, now>>
    /\ remoteUnchanged

\* issues.createComment resolves or rejects (lines 146-155)
PCreateCommentDone(r) ==
    /\ run[r].pc = "createComment"
    /\ LET number == run[r].pullRequest.number
           st == logCall(run[r], [op |-> "issues.createComment", issue_number |-> number,
                                  body |-> run[r].infoCommentBody])
       IN  \E ok \in BOOLEAN :
             IF ok
             THEN /\ comments' = commentsCreate(number, st.infoCommentBody)
                  /\ run' = [run EXCEPT ![r] = startChecks(st)]
             ELSE /\ UNCHANGED comments
                  /\ run' = [run EXCEPT ![r] = setFailed(st, HttpError)]
    /\ UNCHANGED <<pulls, now>>
    /\ remoteUnchanged

\* the checks awaited together so that the first rejection is thrown
PCheckDoneAll(r, i) ==
    /\ run[r].pc = "checks"
    /\ i \in run[r].pending
    /\ \E status \in CheckStatuses :
         LET assignee == prInputs.prAssignees[i]
             st1 == [run[r] EXCEPT !.pending = @ \ {i}, !.settled[i] = status]
             st2 == checkResolved(st1, assignee, status)
         IN  run' = [run EXCEPT ![r] = IF status >= 400 THEN setFailed(st1, HttpError)
                                       ELSE IF st2.pending = {} THEN afterChecks(st2)
                                       ELSE st2]
    /\ UNCHANGED <<pulls, comments, now>>
    /\ remoteUnchanged

\* one issues.checkUserCanBeAssigned settles (lines 159-173); the last one to
\* settle resolves Promise.allSettled and main() goes on (lines 174-184)
PCheckDone(r, i) ==
    /\ run[r].pc = "checks"
    /\ i \in run[r].pending
    /\ \E status \in CheckStatuses :
         LET assignee == prInputs.prAssignees[i]
             st1 == [run[r] EXCEPT !.pending = @ \ {i}, !.settled[i] = status]
             st2 == IF status < 400 THEN checkResolved(st1, assignee, status) ELSE st1
         IN  run' = [run EXCEPT ![r] = IF st2.pending = {} THEN afterChecks(st2) ELSE st2]
    /\ UNCHANGED <<pulls, comments, now>>
    /\ remoteUnchanged

\* issues.addAssignees resolves or rejects (lines 175-184)
PAddAssigneesDone(r) ==
    /\ run[r].pc = "addAssignees"
    /\ LET st == logCall(run[r], [op |-> "issues.addAssignees",
                                  issue_number |-> run[r].pullRequest.number,
                                  assignees |-> assigneesToAdd(run[r])])
       IN  \E ok \in BOOLEAN :
             run' = [run EXCEPT ![r] = IF ok THEN afterAssignees(st)
                                       ELSE setFailed(st, HttpError)]
    /\ UNCHANGED <<pulls, comments, now>>
    /\ remoteUnchanged

\* pulls.requestReviewers resolves or rejects (lines 188-198)
PRequestReviewersDone(r) ==
    /\ run[r].pc = "requestReviewers"
    /\ LET st == logCall(run[r], [op |-> "pulls.requestReviewers",
                                  pull_number |-> run[r].pullRequest.number,
                                  reviewers |-> prInputs.prReviewers,
                                  team_reviewers |-> prInputs.prTeamReviewers])
       IN  \E ok \in BOOLEAN :
             run' = [run EXCEPT ![r] = IF ok THEN afterReviewers(st)
                                       ELSE setFailed(st, HttpError)]
    /\ UNCHANGED <<pulls, comments, now>>
    /\ remoteUnchanged

\* issues.addLabels resolves or rejects (lines 202-214)
PAddLabelsDone(r) ==
    /\ run[r].pc = "addLabels"
    /\ LET st == logCall(run[r], [op |-> "issues.addLabels",
                                  issue_number |-> run[r].pullRequest.number,
                                  labels |-> prInputs.prLabels])
       IN  \E ok \in BOOLEAN :
             run' = [run EXCEPT ![r] = IF ok THEN afterLabels(st)
                                       ELSE setFailed(st, HttpError)]
    /\ UNCHANGED <<pulls, comments, now>>
    /\ remoteUnchanged

(***************************************************************************)
(* The repositories and inputs the runs of program "pr" start from.         *)
(***************************************************************************)
\* the versioning branch index.ts is handed
HeadBranch == "rel_1.3.0"

Users == <<"alice", "bob", "carol">>

\* a pull request of the repository before the first run
Pull(number, head, state, stamp) ==
    [number |-> number, head |-> head, base |-> "main", state |-> state,
     title |-> "old title", body |-> "old body", draft |-> FALSE, updated_at |-> stamp,
     url |-> "pulls/" \o ToString(number)]

\* pull request 1 belongs to another head branch and is the latest updated
PullScenarios ==
    { <<Pull(1, "feature", "open", 9)>>,
      <<Pull(1, "feature", "open", 9), Pull(2, HeadBranch, "open", 1)>>,
      <<Pull(1, "feature", "open", 9), Pull(2, HeadBranch, "closed", 1)>>,
      <<Pull(1, "feature", "open", 9), Pull(2, HeadBranch, "closed", 1),
        Pull(3, HeadBranch, "open", 2)>>,
      <<Pull(1, "feature", "open", 9), Pull(2, HeadBranch, "open", 1),
        Pull(3, HeadBranch, "closed", 2)>> }

Comment(id, login, uid) == [id |-> id, login |-> login, uid |-> uid, body |-> "old"]

\* the comments every pull request starts with
CommentScenarios ==
    { <<>>,
      <<Comment(1, "octocat", 1)>>,
      <<Comment(1, "octocat", 1), Comment(2, "renamed[bot]", BotId),
        Comment(3, BotLogin, BotId)>> }

\* requested reviewers, team reviewers and labels
ReviewScenarios ==
    { [reviewers |-> <<>>, team |-> <<>>, labels |-> <<>>],
      [reviewers |-> <<"dave">>, team |-> <<>>, labels |-> <<"release">>],
      [reviewers |-> <<>>, team |-> <<"core">>, labels |-> <<>>] }

\* index.ts uses axios, octokit, loadTemplate, replace, StatusCodes, headBranch
\* and the pr* inputs and declares none of them: FALSE is the file as it is,
\* TRUE the file with the declarations of the rest of the repository in scope
DeclarationsInScope == BOOLEAN

InitPr ==
    /\ \E vt \in {"minor", "prerelease"} :
         inputs = [n \in {"base-branch", "version-type", "version-branch-prefix",
                          "prerelease", "pre-id", "custom-version"} |->
                     CASE n = "base-branch" -> "main"
                       [] n = "version-type" -> vt
                       [] n = "version-branch-prefix" -> "rel_"
                       [] n = "prerelease" -> "false"
                       [] n = "pre-id" -> ""
                       [] n = "custom-version" -> Empty]
    /\ packageJson \in {V123, VShort}
    /\ \E fail \in {"true", "false"}, draft \in {"true", "false"},
          n \in 0..MaxAssignees, rs \in ReviewScenarios :
         prInputs = [headBranch |-> HeadBranch, isPrerelease |-> FALSE,
                     prFailIfExist |-> fail, prTitle |-> "Release", prDescription |-> "",
                     prCreateDraft |-> draft, prAssignees |-> SubSeq(Users, 1, n),
                     prReviewers |-> rs.reviewers, prTeamReviewers |-> rs.team,
                     prLabels |-> rs.labels]
    /\ declared \in DeclarationsInScope
    /\ tokenUser = [login |-> BotLogin, id |-> BotId]
    /\ pulls \in PullScenarios
    /\ \E cs \in CommentScenarios : comments = [n \in 1..Len(pulls) |-> cs]
    /\ now = pulls[1].updated_at
    /\ InitRemote

\* the runs of this specification are queued: a run is started once the runs
\* before it have ended; SpecOverlap lets the runs overlap
NextPr ==
    \/ \E r \in PrRuns : (\A q \in 1..(r - 1) : run[q].pc \in {"done", "failed"}) /\ PStart(r)
    \/ \E r \in PrRuns : PFetchDone(r)
    \/ \E r \in PrRuns : PListDone(r)
    \/ \E r \in PrRuns : PUpdateDone(r)
    \/ \E r \in PrRuns : PCreateDone(r)
    \/ \E r \in PrRuns : PTemplateDone(r)
    \/ \E r \in PrRuns : PListCommentsDone(r)
    \/ \E r \in PrRuns : PUpdateCommentDone(r)
    \/ \E r \in PrRuns : PCreateCommentDone(r)
    \/ \E r \in PrRuns, i \in 1..MaxAssignees : PCheckDone(r, i)
    \/ \E r \in PrRuns : PAddAssigneesDone(r)
    \/ \E r \in PrRuns : PRequestReviewersDone(r)
    \/ \E r \in PrRuns : PAddLabelsDone(r)

SpecPr == InitPr /\ [][NextPr]_vars

(***************************************************************************)
(* Properties.                                                              *)
(***************************************************************************)
\* the calls of a log whose operation is one of ops
callsIn(calls, ops) == SelectSeq(calls, LAMBDA call : call.op \in ops)

\* the calls of run r whose operation is one of ops
callsOf(r, ops) == callsIn(run[r].calls, ops)

RefMutations == {"git.createRef"}

PullMutations == {"pulls.update", "pulls.create"}

CommentMutations == {"issues.updateComment", "issues.createComment"}

CollaboratorMutations == {"issues.addAssignees", "pulls.requestReviewers", "issues.addLabels"}

Mutations == RefMutations \cup PullMutations \cup CommentMutations \cup CollaboratorMutations

\* a run in state st has written value to output name
outputIn(st, name, value) == name \in DOMAIN st.outputs /\ st.outputs[name] = value

\* run r has written value to output name
hasOutput(r, name, value) == outputIn(run[r], name, value)

\* run r has resolved its target version
resolved(r) == run[r].newVersion # ""

\* C1: two runs of ref reconciliation in sequence with the same inputs issue
\* one create-ref call in total; the first reports is-new-branch = true, the
\* second reports is-new-branch = false, issues no create-ref call and does
\* not fail (requests that fail in transport aside).
C1_RefReconciliationIdempotent ==
    \A r1, r2 \in Runs :
        (/\ r1 \in run[r2].after
         /\ run[r1].pc = "done"
         /\ r2 \in Ended
         /\ run[r2].failed # <<HttpError>>)
        => /\ run[r2].pc = "done"
           /\ Len(callsOf(r1, RefMutations)) = 1
           /\ Len(callsOf(r2, RefMutations)) = 0
           /\ hasOutput(r1, "is-new-branch", TRUE)
           /\ hasOutput(r2, "is-new-branch", FALSE)

\* the commit repos.getCommit answered run r with
resolvedCommit(r) ==
    LET got == callsOf(r, {"repos.getCommit"}) IN IF Len(got) = 0 THEN 0 ELSE got[1].sha

\* C2: a step of a run leaves every existing ref where it points, and the
\* only ref it may add is the run's headBranchRef, pointing at the commit the
\* base branch resolved to in that run.
C2_OnlyHeadRefAdded ==
    [][\A r \in Runs :
          run'[r] # run[r] =>
             /\ \A ref \in DOMAIN refs : ref \in DOMAIN refs' /\ refs'[ref] = refs[ref]
             /\ \A ref \in DOMAIN refs' \ DOMAIN refs :
                   /\ ref = "refs/heads/" \o getInput("version-branch-prefix")
                                          \o run[r].newVersion
                   /\ refs'[ref] = resolvedCommit(r)
                   /\ resolvedCommit(r) # 0]_vars

\* C2 witness: one run has added the head ref, a later one found it present
\* after the base branch had moved on
C2_Witness ==
    \E r1, r2 \in Runs :
        /\ run[r1].pc = "done"
        /\ run[r2].failed = <<"Reference already exists">>
        /\ run[r2].sha # refs[run[r2].headBranchRef]

\* the version a plain bump of level must give
expectedBump(v, level) ==
    CASE level = "major" -> format([major |-> v.major + 1, minor |-> 0, patch |-> 0,
                                    prerelease |-> <<>>])
      [] level = "minor" -> format([major |-> v.major, minor |-> v.minor + 1, patch |-> 0,
                                    prerelease |-> <<>>])
      [] level = "patch" -> format([major |-> v.major, minor |-> v.minor,
                                    patch |-> v.patch + 1, prerelease |-> <<>>])

\* C8: with no pre-id, no custom version (and the prerelease switch off), a
\* bump of level major, minor or patch of a base version major.minor.patch
\* advances that component alone and resets the lower ones.
C8_PlainBump ==
    \A r \in Runs :
        (/\ resolved(r)
         /\ getInput("pre-id") = ""
         /\ getInput("custom-version") = Empty
         /\ getInput("prerelease") # "true"
         /\ getInput("version-type") \in {"major", "minor", "patch"}
         /\ parse(run[r].baseVersion).prerelease = <<>>)
        => run[r].newVersion = expectedBump(parse(run[r].baseVersion),
                                            getInput("version-type"))

\* C9: a custom version that is a valid semantic version is the resolved
\* version, the head-version output and the version part of the branch name.
C9_CustomVersionWins ==
    \A r \in Runs :
        (/\ resolved(r)
         /\ getInput("custom-version") # Empty
         /\ valid(getInput("custom-version")))
        => /\ run[r].newVersion = Str(getInput("custom-version"))
           /\ run[r].headBranch = getInput("version-branch-prefix")
                                  \o Str(getInput("custom-version"))
           /\ run[r].pc = "done" => hasOutput(r, "head-version",
                                              Str(getInput("custom-version")))

\* the inputs C10 calls invalid
invalidInputs ==
    \/ ~valid(packageJson)
    \/ getInput("custom-version") # Empty /\ ~valid(getInput("custom-version"))
    \/ getInput("version-type") \notin {"major", "minor", "patch", "prerelease"}

\* C10: with an invalid base version, an invalid custom version or an unknown
\* bump level no run completes and no run issues a remote mutation call.
C10_InvalidInputsNoMutation ==
    invalidInputs =>
        \A r \in Runs : run[r].pc # "done" /\ Len(callsOf(r, Mutations)) = 0

\* the pull requests of the pair (head, base) the runs of program "pr" work on
candidates ==
    {n \in 1..Len(pulls) : pulls[n].head = prInputs.headBranch
                           /\ pulls[n].base = getInput("base-branch")}

\* the most recently updated of them
latest == CHOOSE n \in candidates : \A m \in candidates :
                                       pulls[m].updated_at <= pulls[n].updated_at

\* the duplicate policy applies: the latest candidate exists and is open
duplicateCase ==
    prInputs.prFailIfExist = "true" /\ candidates # {} /\ pulls[latest].state = "open"

DuplicateMessage ==
    "Not allowed to re-issue a pull request to base branch: " \o getInput("base-branch")
    \o " from head branch: " \o prInputs.headBranch \o ". An open pull request is found."

\* C3: when failIfExistingOpen is set and the most recently updated pull
\* request of the pair is open, the answer of the listing ends the run with the
\* duplicate-pull-request error; the run has issued no mutation call, changes
\* nothing remote, and issues no call afterwards.
C3_DuplicateFailsWithoutMutation ==
    [][\A r \in Runs :
          /\ (/\ run[r].pc = "list"
              /\ run'[r] # run[r]
              /\ run'[r].failed # <<HttpError>>
              /\ duplicateCase)
             => /\ run'[r].pc = "failed"
                /\ run'[r].failed = <<DuplicateMessage>>
                /\ Len(callsIn(run'[r].calls, Mutations)) = 0
                /\ pulls' = pulls
                /\ comments' = comments
          /\ run[r].failed = <<DuplicateMessage>> => run'[r] = run[r]]_vars

\* C3 witness: a run has ended with the duplicate-pull-request error
C3_Witness ==
    \E r \in Runs : run[r].pc = "failed" /\ run[r].failed = <<DuplicateMessage>>

\* C4: when the listing is answered and the run does not fail on the duplicate
\* policy, then, if a pull request of the pair exists (open or closed), the
\* most recently updated one is updated in place and left open and nothing
\* is created, and if none exists one pull request is created with the given
\* head, base, title, body and draft flag; the resulting pull request is open
\* and its number and URL are the outputs.
C4_UpdateLatestOrCreate ==
    [][\A r \in Runs :
          run'[r] # run[r] =>
             /\ (run[r].pc = "list" /\ run'[r].pc # "failed")
                => /\ run'[r].pc = IF candidates # {} THEN "update" ELSE "create"
                   /\ candidates # {} => run'[r].pullRequest = pulls[latest]
             /\ (run[r].pc \in {"update", "create"} /\ run'[r].pc # "failed")
                => LET update == run[r].pc = "update"
                       result == IF update THEN run[r].pullRequest.number ELSE Len(pulls) + 1
                   IN  /\ Len(callsIn(run'[r].calls, PullMutations)) = 1
                       /\ Len(pulls') = IF update THEN Len(pulls) ELSE Len(pulls) + 1
                       /\ \A m \in 1..Len(pulls) : m # result => pulls'[m] = pulls[m]
                       /\ pulls'[result].state = "open"
                       /\ pulls'[result].number = result
                       /\ pulls'[result].head = prInputs.headBranch
                       /\ pulls'[result].base = getInput("base-branch")
                       /\ ~update =>
                             /\ pulls'[result].title = prInputs.prTitle
                             /\ pulls'[result].body = prInputs.prDescription
                             /\ pulls'[result].draft = (prInputs.prCreateDraft = "true")
                       /\ outputIn(run'[r], "pull-request-number", result)
                       /\ outputIn(run'[r], "pull-request-url", pulls'[result].url)
             /\ run[r].pc \notin {"update", "create"} => pulls' = pulls]_vars

\* the users whose check of run r the platform answered with 204
confirmed(r) ==
    {prInputs.prAssignees[i] :
        i \in {j \in 1..Len(run[r].settled) : run[r].settled[j] = NO_CONTENT}}

\* the orders a set can be listed in
Orders(set) ==
    {f \in [1..Cardinality(set) -> set] : \A i, j \in 1..Cardinality(set) : f[i] = f[j] => i = j}

\* C5: the 'assignees' output lists, comma-joined and in some order, exactly
\* the requested users whose check the platform answered with 204; it is the
\* empty string when there is none.
C5_AssigneesOutputIsConfirmed ==
    \A r \in Runs :
        "assignees" \in DOMAIN run[r].outputs =>
            /\ confirmed(r) \subseteq {prInputs.prAssignees[i] : i \in 1..Len(prInputs.prAssignees)}
            /\ Len(callsOf(r, {"issues.checkUserCanBeAssigned"})) = Len(prInputs.prAssignees)
            /\ \E order \in Orders(confirmed(r)) :
                  run[r].outputs["assignees"] = Join(order, ",")

\* C5 witness: the checks completed in the reverse of the requested order
C5_Witness == \E r \in Runs : hasOutput(r, "assignees", "bob,alice")

\* C6: every user of the list handed to add-assignees was confirmed
\* assignable by a check of the run.
C6_AddAssigneesOnlyConfirmed ==
    \A r \in Runs :
        \A i \in 1..Len(run[r].calls) :
            run[r].calls[i].op = "issues.addAssignees" =>
                \A k \in 1..Len(run[r].calls[i].assignees) :
                    run[r].calls[i].assignees[k] \in confirmed(r)

\* the comments of the automation identity on pull request n, by position
botPositions(n) ==
    {i \in 1..Len(comments[n]) : comments[n][i].login = BotLogin \/ comments[n][i].uid = BotId}

\* C7: a run issues one comment mutation: the first comment of the automation
\* identity in the listing, in list order, gets the rendered body and nothing
\* is created, or, with no such comment listed, one comment with the rendered
\* body is appended; no other comment changes.
C7_OneCommentMutation ==
    [][\A r \in Runs :
          run'[r] # run[r] =>
             LET n == run[r].pullRequest.number
                 old == comments[n]
                 first == CHOOSE i \in botPositions(n) : \A j \in botPositions(n) : i <= j
             IN
             /\ Len(callsIn(run'[r].calls, CommentMutations)) <= 1
             /\ run'[r].pc = "done" => Len(callsIn(run'[r].calls, CommentMutations)) = 1
             /\ \A m \in 1..Len(comments) : m # n => comments'[m] = comments[m]
             /\ run[r].pc \notin {"updateComment", "createComment"} =>
                   \A m \in 1..Len(comments) : comments'[m] = comments[m]
             /\ (run[r].pc = "listComments" /\ run'[r].pc # "failed") =>
                   IF botPositions(n) # {}
                   THEN /\ run'[r].pc = "updateComment"
                        /\ run'[r].infoComment = old[first]
                   ELSE run'[r].pc = "createComment"
             /\ (run[r].pc = "updateComment" /\ run'[r].pc # "failed") =>
                   /\ \E i \in 1..Len(old) : old[i].id = run[r].infoComment.id
                   /\ comments'[n] =
                        [i \in 1..Len(old) |->
                           IF old[i].id = run[r].infoComment.id
                           THEN [old[i] EXCEPT !.body = run[r].infoCommentBody]
                           ELSE old[i]]
             /\ (run[r].pc = "createComment" /\ run'[r].pc # "failed") =>
                   /\ Len(comments'[n]) = Len(old) + 1
                   /\ SubSeq(comments'[n], 1, Len(old)) = old
                   /\ comments'[n][Len(old) + 1].body = run[r].infoCommentBody]_vars

\* C7 witness: of two comments of the automation identity the first, matched
\* by its id alone, has the new body and the second is as it was
C7_Witness ==
    \E n \in 1..Len(comments) :
        /\ Len(comments[n]) = 3
        /\ comments[n][2].login # BotLogin
        /\ comments[n][2].body # "old"
        /\ comments[n][3].body = "old"

\* every create-ref call of run r operates on ref
operatesOn(r, ref) ==
    \A k \in 1..Len(run[r].calls) :
        run[r].calls[k].op = "git.createRef" => run[r].calls[k].ref = ref

\* C11: a run that reports outputs reports the resolved version as
\* head-version, the prefix followed by that version as head-branch, and
\* operates on the ref "refs/heads/" followed by head-branch; base-branch and
\* base-version are the base branch and the version read from it, and
\* head-version differs from base-version.
C11_OutputsNameTheHeadBranch ==
    \A r \in Runs :
        "head-version" \in DOMAIN run[r].outputs =>
            /\ hasOutput(r, "head-version", run[r].newVersion)
            /\ hasOutput(r, "head-branch",
                         getInput("version-branch-prefix") \o run[r].newVersion)
            /\ operatesOn(r, "refs/heads/" \o run[r].outputs["head-branch"])
            /\ hasOutput(r, "base-branch", getInput("base-branch"))
            /\ hasOutput(r, "base-version", Str(packageJson))
            /\ run[r].outputs["head-version"] # run[r].outputs["base-version"]

\* the operations a run issues once at most
SingleCalls == Mutations \cup {"pulls.list", "issues.listComments"}

\* run r has an assignability check the platform rejected
rejectedCheck(r) ==
    \E i \in DOMAIN run[r].settled : run[r].settled[i] >= 400

\* what a step does in a run once a call of that run has failed: the step
\* that takes the run to its failed end leaves the remote state as it is and
\* writes the failure; a failed run does nothing more; the failure is written
\* once; no operation is issued twice
failureEndsRun(r) ==
    /\ run[r].pc = "failed" => run'[r] = run[r]
    /\ Len(run'[r].failed) <= 1
    /\ (run'[r].pc = "failed") = (Len(run'[r].failed) = 1)
    /\ (run[r].pc # "failed" /\ run'[r].pc = "failed") =>
          /\ pulls' = pulls /\ comments' = comments /\ refs' = refs
          /\ Len(run'[r].calls) <= Len(run[r].calls) + 1
          /\ Len(run'[r].calls) > Len(run[r].calls) =>
                \/ run'[r].failed = <<HttpError>>
                \/ /\ run'[r].calls[Len(run'[r].calls)].op = "pulls.list"
                   /\ run'[r].failed = <<DuplicateMessage>>
                \/ /\ run'[r].calls[Len(run'[r].calls)].op = "git.createRef"
                   /\ run'[r].failed = <<"Reference already exists">>
    /\ \A op \in SingleCalls : Len(callsIn(run'[r].calls, {op})) <= 1

\* C12 as stated: a failed call of any kind, a rejected assignability check
\* included, ends the run: no call is issued after it and the run does not
\* complete.
C12_AnyFailedCallEndsRun ==
    [][\A r \in Runs :
          /\ failureEndsRun(r)
          /\ rejectedCheck(r) =>
                /\ run'[r].calls = run[r].calls
                /\ run'[r].pc # "done"]_vars

\* C12: a failed call other than an assignability check ends the run: the
\* failure sink is written once with the error's message, the run issues no
\* call afterwards, no operation is issued twice, and the step that fails
\* changes nothing remote, so what was applied before stays.
C12_FailureIsTerminal ==
    [][\A r \in Runs : failureEndsRun(r)]_vars

\* a run failed in its last stage, after it created a pull request that is
\* still there
C12_Witness ==
    \E r \in Runs :
        /\ run[r].pc = "failed"
        /\ run[r].failed = <<HttpError>>
        /\ Len(run[r].calls) > 0
        /\ run[r].calls[Len(run[r].calls)].op = "issues.addLabels"
        /\ Len(callsOf(r, {"pulls.create"})) = 1
        /\ \E n \in 1..Len(pulls) : /\ pulls[n].number = run[r].pullRequest.number
                                    /\ pulls[n].state = "open"

\* every assignability check of run r has settled
allSettled(r) ==
    /\ run[r].pending = {}
    /\ Len(run[r].settled) = Len(prInputs.prAssignees)
    /\ \A i \in 1..Len(run[r].settled) : run[r].settled[i] # 0

\* C13: while the assignability checks of a run are out, every check that
\* has not settled can still settle, whatever the others answered; a step
\* settles one check and never fails the run; the run stays at the join
\* until the last check settles; issues.addAssignees is called and the
\* 'assignees' output written only after every check has settled.
C13_ChecksIsolatedAndJoined ==
    /\ [][\A r \in Runs :
            run[r].pc = "checks" =>
               /\ run[r].pending # {}
               /\ \A i \in run[r].pending : ENABLED PCheckDone(r, i)
               /\ run'[r] # run[r] =>
                     /\ run'[r].pc # "failed"
                     /\ run'[r].failed = <<>>
                     /\ \E i \in run[r].pending :
                           /\ run'[r].pending = run[r].pending \ {i}
                           /\ run'[r].settled[i] \in CheckStatuses
                           /\ \A j \in DOMAIN run[r].settled \ {i} :
                                 run'[r].settled[j] = run[r].settled[j]
                     /\ (run'[r].pc = "checks") = (run'[r].pending # {})]_vars
    /\ [](\A r \in Runs :
            (\/ Len(callsOf(r, {"issues.addAssignees"})) > 0
             \/ "assignees" \in DOMAIN run[r].outputs)
            => allSettled(r))

\* a run whose first check was rejected and whose second check was answered
\* with 204 afterwards went on to add and report the assignee
C13_Witness ==
    \E r \in Runs :
        /\ run[r].pc = "done"
        /\ Len(run[r].settled) = 2
        /\ run[r].settled[1] = 404
        /\ run[r].settled[2] = NO_CONTENT
        /\ Len(callsOf(r, {"issues.addAssignees"})) = 1
        /\ hasOutput(r, "assignees", "bob")

\* runs r1 and r2 overlap: neither had ended when the other started
overlap(r1, r2) ==
    /\ r1 # r2
    /\ run[r1].pc # "start" /\ run[r2].pc # "start"
    /\ r1 \notin run[r2].after /\ r2 \notin run[r1].after

\* the remote has answered the create-ref call of run r
createRefAnswered(r) == Len(callsOf(r, {"git.createRef"})) > 0

\* C14: of two overlapping runs that both called git.createRef for the head
\* ref, absent before, one at most created it; each issued one create-ref
\* call; a run the remote rejected because the ref exists has failed with that
\* error and its create-ref call is its last call; the ref points at the
\* commit the run that completed supplied.
C14_RaceCreatesOnce ==
    \A r1, r2 \in Runs :
        (overlap(r1, r2) /\ createRefAnswered(r1) /\ createRefAnswered(r2)) =>
            /\ run[r1].headBranchRef = run[r2].headBranchRef
            /\ ~(run[r1].pc = "done" /\ run[r2].pc = "done")
            /\ Len(callsOf(r1, {"git.createRef"})) = 1
            /\ Len(callsOf(r2, {"git.createRef"})) = 1
            /\ run[r2].pc \in {"done", "failed"}
            /\ run[r2].calls[Len(run[r2].calls)].op = "git.createRef"
            /\ run[r1].pc = "done" =>
                  /\ run[r1].headBranchRef \in DOMAIN refs
                  /\ refs[run[r1].headBranchRef] = callsOf(r1, {"git.createRef"})[1].sha
                  /\ run[r2].failed \in {<<"Reference already exists">>, <<HttpError>>}
            /\ run[r2].failed = <<"Reference already exists">> =>
                  \E w \in Runs : /\ run[w].pc = "done"
                                  /\ refs[run[r2].headBranchRef] = run[w].sha

\* two overlapping runs resolved different commits of the base branch; the
\* first to call created the ref, the other was rejected
C14_Witness ==
    \E r1, r2 \in Runs :
        /\ overlap(r1, r2)
        /\ run[r1].pc = "done"
        /\ run[r2].failed = <<"Reference already exists">>
        /\ run[r1].sha # run[r2].sha
        /\ refs[run[r1].headBranchRef] = run[r1].sha

\* the open pull requests of the (head, base) pair
openCandidates == {n \in candidates : pulls[n].state = "open"}

\* C15: with failIfExistingOpen set, a run whose listing is answered while an
\* open pull request of the pair exists, whatever its place among the pull
\* requests of the pair, ends with the duplicate-pull-request error; no run
\* is about to update or create a pull request while one is open, and a run
\* that completes leaves one open pull request of the pair at most.
C15_AnyOpenPullFails ==
    /\ [][\A r \in Runs :
             (/\ prInputs.prFailIfExist = "true"
              /\ run[r].pc = "list"
              /\ run'[r] # run[r]
              /\ run'[r].failed # <<HttpError>>
              /\ openCandidates # {})
             => /\ run'[r].pc = "failed"
                /\ run'[r].failed = <<DuplicateMessage>>
                /\ pulls' = pulls]_vars
    /\ [](prInputs.prFailIfExist = "true" =>
            \A r \in Runs :
                /\ run[r].pc \in {"update", "create"} => openCandidates = {}
                /\ run[r].pc = "done" => Cardinality(openCandidates) <= 1)

\* C15 witness: the most recently updated pull request of the pair is closed,
\* an older one is open, and the run has ended with the duplicate error
C15_Witness ==
    \E r \in Runs :
        /\ run[r].failed = <<DuplicateMessage>>
        /\ candidates # {}
        /\ pulls[latest].state = "closed"
        /\ openCandidates # {}

\* the release type the bump level and the pre-id stand for
preReleaseType(level, preId) ==
    IF preId # "" /\ level \in {"major", "minor", "patch"} THEN "pre" \o level ELSE level

\* C16: with no custom version the resolved version is the base version
\* incremented by the release type the bump level and the pre-id stand for
\* (premajor, preminor, prepatch with a pre-id; major, minor, patch without;
\* prerelease either way), and a completed run reports is-prerelease as true
\* exactly when the level is prerelease or a pre-id is given.
C16_PreIdSelectsReleaseType ==
    \A r \in Runs :
        LET level == getInput("version-type")
            preId == getInput("pre-id")
        IN  (/\ resolved(r)
             /\ getInput("custom-version") = Empty
             /\ level \in {"major", "minor", "patch", "prerelease"}) =>
                /\ run[r].releaseType = preReleaseType(level, preId)
                /\ run[r].newVersion = inc(packageJson, preReleaseType(level, preId), preId)
                /\ run[r].pc = "done" =>
                      hasOutput(r, "is-prerelease", level = "prerelease" \/ preId # "")

\* C17: a run with no requested assignee issues no assignability check and no
\* add-assignees call, and no run issues add-assignees with no requested
\* assignee confirmed; request-reviewers is issued once at most, only with a
\* reviewer or a team reviewer given, and carries both lists; add-labels is
\* issued once at most and only with a label given; an output written with
\* nothing applied is the empty string.
C17_EmptyStepsSkipped ==
    \A r \in Runs :
        LET checks == callsOf(r, {"issues.checkUserCanBeAssigned"})
            adds == callsOf(r, {"issues.addAssignees"})
            requests == callsOf(r, {"pulls.requestReviewers"})
            labels == callsOf(r, {"issues.addLabels"})
        IN  /\ Len(prInputs.prAssignees) = 0 => Len(checks) = 0 /\ Len(adds) = 0
            /\ Len(adds) <= 1
            /\ Len(adds) = 1 => confirmed(r) # {}
            /\ Len(requests) <= 1
            /\ Len(requests) = 1 =>
                  /\ Len(prInputs.prReviewers) > 0 \/ Len(prInputs.prTeamReviewers) > 0
                  /\ requests[1].reviewers = prInputs.prReviewers
                  /\ requests[1].team_reviewers = prInputs.prTeamReviewers
            /\ Len(labels) <= 1
            /\ Len(labels) = 1 => Len(prInputs.prLabels) > 0
            /\ ("assignees" \in DOMAIN run[r].outputs /\ Len(adds) = 0) =>
                  run[r].outputs["assignees"] = ""
            /\ ("reviewers" \in DOMAIN run[r].outputs /\ Len(requests) = 0) =>
                  /\ run[r].outputs["reviewers"] = ""
                  /\ hasOutput(r, "team-reviewers", "")
            /\ ("labels" \in DOMAIN run[r].outputs /\ Len(labels) = 0) =>
                  run[r].outputs["labels"] = ""

\* a run completed with assignees requested and none confirmed, no reviewer
\* and no label: it issued the checks and no collaborator mutation
C17_Witness ==
    \E r \in Runs :
        /\ run[r].pc = "done"
        /\ Len(callsOf(r, {"issues.checkUserCanBeAssigned"})) = 2
        /\ confirmed(r) = {}
        /\ Len(callsOf(r, CollaboratorMutations)) = 0
        /\ hasOutput(r, "assignees", "")
        /\ hasOutput(r, "reviewers", "")
        /\ hasOutput(r, "team-reviewers", "")
        /\ hasOutput(r, "labels", "")

(***************************************************************************)
(* Overlapping runs of program "pr": several workflows are triggered with  *)
(* the same inputs and no collaborator requested; their steps interleave.  *)
(***************************************************************************)
InitOverlap ==
    /\ InitPr
    /\ prInputs.prAssignees = <<>>
    /\ prInputs.prReviewers = <<>>
    /\ prInputs.prTeamReviewers = <<>>
    /\ prInputs.prLabels = <<>>

NextOverlap ==
    \/ \E r \in Runs : PStart(r)
    \/ \E r \in Runs : PFetchDone(r)
    \/ \E r \in Runs : PListDone(r)
    \/ \E r \in Runs : PUpdateDone(r)
    \/ \E r \in Runs : PCreateDone(r)
    \/ \E r \in Runs : PTemplateDone(r)
    \/ \E r \in Runs : PListCommentsDone(r)
    \/ \E r \in Runs : PUpdateCommentDone(r)
    \/ \E r \in Runs : PCreateCommentDone(r)

SpecOverlap == InitOverlap /\ [][NextOverlap]_vars

(***************************************************************************)
(* Re-runs of program "pr": the runs follow one another with the same      *)
(* inputs, failIfExistingOpen unset and no collaborator requested, and no  *)
(* other actor changes the repository.                                      *)
(***************************************************************************)
InitRerun ==
    /\ InitOverlap
    /\ prInputs.prFailIfExist = "false"

\* a run is started once the runs before it have ended
NextRerun ==
    \/ \E r \in Runs : (\A q \in 1..(r - 1) : run[q].pc \in {"done", "failed"}) /\ PStart(r)
    \/ \E r \in Runs : PFetchDone(r)
    \/ \E r \in Runs : PListDone(r)
    \/ \E r \in Runs : PUpdateDone(r)
    \/ \E r \in Runs : PCreateDone(r)
    \/ \E r \in Runs : PTemplateDone(r)
    \/ \E r \in Runs : PListCommentsDone(r)
    \/ \E r \in Runs : PUpdateCommentDone(r)
    \/ \E r \in Runs : PCreateCommentDone(r)

SpecRerun == InitRerun /\ [][NextRerun]_vars

\* the id of the first comment of the automation identity on pull request n
firstBotComment(n) ==
    comments[n][CHOOSE i \in botPositions(n) : \A j \in botPositions(n) : i <= j].id

\* the comment run r updated, or the one it created
selectedComment(r) ==
    LET updates == callsOf(r, {"issues.updateComment"})
    IN  IF Len(updates) > 0 THEN updates[1].comment_id
        ELSE firstBotComment(run[r].pullRequest.number)

\* C18: once a run has completed, no step adds a pull request or a comment,
\* and a run started after it issues no create call: its pull_number is the
\* pull request the completed run created or updated and its comment_id is
\* the comment the completed run created or updated.
C18_RerunsConverge ==
    /\ [][(\E r1 \in Runs : run[r1].pc = "done") =>
             /\ Len(pulls') = Len(pulls)
             /\ \A n \in DOMAIN comments : Len(comments'[n]) = Len(comments[n])]_vars
    /\ [](\A r1, r2 \in Runs :
            (run[r1].pc = "done" /\ r1 \in run[r2].after) =>
                /\ Len(callsOf(r2, {"pulls.create", "issues.createComment"})) = 0
                /\ \A k \in DOMAIN run[r2].calls :
                      LET call == run[r2].calls[k]
                      IN  /\ call.op = "pulls.update" =>
                                call.pull_number = run[r1].pullRequest.number
                          /\ call.op = "issues.listComments" =>
                                call.issue_number = run[r1].pullRequest.number
                          /\ call.op = "issues.updateComment" =>
                                call.comment_id = selectedComment(r1))

\* the first run created the pull request and its comment; the second run,
\* started after it, updated both
C18_Witness ==
    \E r1, r2 \in Runs :
        /\ run[r1].pc = "done" /\ run[r2].pc = "done"
        /\ r1 \in run[r2].after
        /\ Len(callsOf(r1, {"pulls.create"})) = 1
        /\ Len(callsOf(r1, {"issues.createComment"})) = 1
        /\ Len(callsOf(r2, {"pulls.update"})) = 1
        /\ Len(callsOf(r2, {"issues.updateComment"})) = 1
        /\ Len(comments[run[r1].pullRequest.number]) = 1

PullCalls == {"pulls.list", "pulls.update", "pulls.create"}

CommentCalls == {"issues.listComments", "issues.updateComment", "issues.createComment"}

CollaboratorCalls ==
    {"issues.checkUserCanBeAssigned", "issues.addAssignees", "pulls.requestReviewers",
     "issues.addLabels"}

\* in the log of run r every call of later has a call of earlier before it
follows(r, later, earlier) ==
    \A k \in 1..Len(run[r].calls) :
        run[r].calls[k].op \in later =>
            \E j \in 1..(k - 1) : run[r].calls[j].op \in earlier

\* every call of run r that names a pull request names number
targets(r, number) ==
    \A k \in 1..Len(run[r].calls) :
        LET call == run[r].calls[k]
        IN  /\ call.op \in {"issues.listComments", "issues.createComment",
                            "issues.addAssignees", "issues.addLabels"} =>
                  call.issue_number = number
            /\ call.op = "pulls.requestReviewers" => call.pull_number = number

\* the comment, assignee, reviewer and label calls of a run come after its
\* one update-or-create call and name the pull request that call returned
onePullRequest(r) ==
    /\ follows(r, CommentCalls, PullMutations)
    /\ follows(r, CollaboratorCalls, CommentMutations)
    /\ Len(callsOf(r, PullMutations)) <= 1
    /\ Len(callsOf(r, PullMutations)) = 1 =>
          /\ targets(r, run[r].pullRequest.number)
          /\ Len(callsOf(r, CommentCalls)) > 0 =>
                \E n \in 1..Len(pulls) : /\ pulls[n].number = run[r].pullRequest.number
                                          /\ pulls[n].head = run[r].headBranch
          /\ callsOf(r, {"pulls.update"}) # <<>> =>
                callsOf(r, {"pulls.update"})[1].pull_number = run[r].pullRequest.number

\* C19: in the log of a run a pull-request call comes after the create-ref
\* call, a comment call after the update-or-create call, a collaborator call
\* after the comment mutation; the run has one update-or-create call and its
\* comment, assignee, reviewer and label calls name the pull request that
\* call returned.
C19_StagesInOrder ==
    \A r \in Runs :
        /\ follows(r, PullCalls, {"git.createRef"})
        /\ onePullRequest(r)

====
